---- MODULE Spec2Model ----
(***************************************************************************)
(* The cube spawning demo of src/main.rs as a state machine.               *)
(*                                                                         *)
(* One frame of the Bevy app is: the host updates Time, Input<KeyCode> and *)
(* Diagnostics (BeginFrame), the four systems registered with add_system   *)
(* run once each, and the stage's command buffers are applied (EndFrame).  *)
(* main() gives the four systems no .before()/.after() constraint, so the  *)
(* order in which they run within a frame is the scheduler's choice: the   *)
(* model lets them run in every order.  Systems that the scheduler may run *)
(* at the same time touch disjoint data, so every parallel run equals one  *)
(* of the interleavings.                                                   *)
(*                                                                         *)
(* Units: durations are whole milliseconds, positions are thousandths of a *)
(* world unit, frames-per-second samples are thousandths of a frame.       *)
(* u32 values are two 16-bit limbs, so that the width of the field is the  *)
(* width the program has.                                                  *)
(***************************************************************************)
EXTENDS Integers, Sequences, FiniteSets, Bags, TLC

VARIABLES
    spawner,          \* the CubeSpawner component: spawning_rate, timer
    counter,          \* the CubesCounter resource and its change detection
    cubes,            \* bag of GeneratedCube entities in the world
    commands,         \* bag of spawn commands queued in this frame
    text,             \* the ten sections of the StatsText entity
    time_delta,       \* Res<Time>::delta() of the frame, in ms
    time_updated,     \* Time has a last update to measure the delta from
    keyboard_input,   \* keys held in the frame
    diagnostics,      \* the FPS diagnostic of the frame
    pending,          \* systems that have not run yet in the frame
    phase,            \* "idle" between frames, "update" within one
    panicked,         \* a system panicked: the app is gone
    prev,             \* history: the system that ran last and what it saw
    writers,          \* history: who changed which resource in the frame
    total,            \* history: time the spawn timer has been ticked with
    longest           \* history: the longest delta a movement tick has seen

vars == <<spawner, counter, cubes, commands, text, time_delta, time_updated,
          keyboard_input,
          diagnostics, pending, phase, panicked, prev, writers, total,
          longest>>

(***************************************************************************)
(* Bounds of the model.                                                    *)
(***************************************************************************)
MaxTime == 2000
MaxCubes == 200
PatternLen == 1
MotionTime == 9000
StatsTime == 16

(***************************************************************************)
(* Program constants.                                                      *)
(***************************************************************************)
INITIAL_SPAWNING_RATE == 100
SPAWNING_RATE_STEP == 500
TIMER_PERIOD == 1000
X_RANGE == 20000
SPEED == 10
SPAWN_LOW == -10000
SPAWN_HIGH == 10000

Systems == {"input_system", "cube_spawning_system", "movement_system",
            "counter_system"}
Keys == {"W", "S"}

(***************************************************************************)
(* Option<T>: None is the empty sequence, Some(v) the sequence <<v>>.      *)
(***************************************************************************)
None == <<>>
Some(v) == <<v>>

(***************************************************************************)
(* u32 as two 16-bit limbs.                                                *)
(***************************************************************************)
Base == 2^16
U32(n) == [hi |-> n \div Base, lo |-> n % Base]
U32_MAX == [hi |-> Base - 1, lo |-> Base - 1]
U32Le(a, b) == a.hi < b.hi \/ (a.hi = b.hi /\ a.lo <= b.lo)
AddOverflows(a, b) == a.hi + b.hi + ((a.lo + b.lo) \div Base) >= Base
wrapping_add(a, b) ==
    [hi |-> (a.hi + b.hi + ((a.lo + b.lo) \div Base)) % Base,
     lo |-> (a.lo + b.lo) % Base]
wrapping_sub(a, b) ==
    [hi |-> (a.hi - b.hi - (IF a.lo < b.lo THEN 1 ELSE 0)) % Base,
     lo |-> (a.lo - b.lo) % Base]
checked_sub_wraps(a, b) == Some(wrapping_sub(a, b))
checked_sub(a, b) == IF U32Le(b, a) THEN Some(wrapping_sub(a, b)) ELSE None

(***************************************************************************)
(* u32::to_string: the decimal digits, most significant first.             *)
(***************************************************************************)
Digit == <<"0", "1", "2", "3", "4", "5", "6", "7", "8", "9">>
DivTen(u) ==
    [hi |-> u.hi \div 10, lo |-> (((u.hi % 10) * Base) + u.lo) \div 10]
ModTen(u) == (((u.hi % 10) * Base) + u.lo) % 10
RECURSIVE to_string(_)
to_string(u) ==
    IF DivTen(u) = U32(0) THEN Digit[ModTen(u) + 1]
    ELSE to_string(DivTen(u)) \o Digit[ModTen(u) + 1]

(***************************************************************************)
(* format!("{v:.2}") of a non-negative sample given in thousandths: the    *)
(* nearest hundredth (a tie goes to the even one), two fraction digits.    *)
(***************************************************************************)
Hundredths(m) ==
    LET h == m \div 10
        r == m % 10
    IN  IF r > 5 \/ (r = 5 /\ h % 2 = 1) THEN h + 1 ELSE h
format_2(m) ==
    LET h == Hundredths(m)
    IN  to_string(U32(h \div 100)) \o "." \o Digit[((h % 100) \div 10) + 1]
            \o Digit[(h % 10) + 1]

(***************************************************************************)
(* Timer::tick of a repeating timer: the elapsed time grows by the delta;  *)
(* when it reaches the period the timer is finished for this tick, the     *)
(* number of whole periods is recorded and all of them are taken off.      *)
(***************************************************************************)
TimerTickOnePeriod(timer, delta) ==
    LET e == timer.elapsed + delta
    IN  IF e >= TIMER_PERIOD
        THEN [elapsed |-> e - TIMER_PERIOD, finished |-> TRUE,
              times_finished_this_tick |-> 1]
        ELSE [elapsed |-> e, finished |-> FALSE,
              times_finished_this_tick |-> 0]
TimerTick(timer, delta) ==
    LET e == timer.elapsed + delta
    IN  IF e >= TIMER_PERIOD
        THEN [elapsed |-> e % TIMER_PERIOD, finished |-> TRUE,
              times_finished_this_tick |-> e \div TIMER_PERIOD]
        ELSE [elapsed |-> e, finished |-> FALSE,
              times_finished_this_tick |-> 0]

(***************************************************************************)
(* (SPAWNING_RATE_STEP as f32 * time.delta_seconds()).round() as u32:      *)
(* round half away from zero of STEP * ms / 1000.  The deltas of the model *)
(* keep the product far below u32::MAX, where the cast saturates.          *)
(***************************************************************************)
Rounded(delta) == U32((SPAWNING_RATE_STEP * delta + 500) \div 1000)

(***************************************************************************)
(* The two branches of input_system on the rate.  `+=` on a u32 panics on  *)
(* overflow in a build with overflow checks and wraps in one without: the  *)
(* outcomes of the increase are the outcomes the two builds give.          *)
(***************************************************************************)
IncreaseOutcomes(rate, keys, delta) ==
    IF "W" \in keys /\ AddOverflows(rate, Rounded(delta))
    THEN {"panic", "wrap"}
    ELSE {"ok"}
RateAfterW(rate, keys, delta) ==
    IF "W" \in keys THEN wrapping_add(rate, Rounded(delta)) ELSE rate
RateAfterS(rate, keys, delta) ==
    IF "S" \in keys
    THEN LET sub == checked_sub(rate, Rounded(delta))
         IN  IF sub # None THEN sub[1] ELSE U32(0)
    ELSE rate

(***************************************************************************)
(* The random draws of one batch: Uniform::from(-10.0..10.0) sampled three *)
(* times per cube.  The stream of draws is a pattern of PatternLen values  *)
(* repeated; the values are the ends and the middle of the range.          *)
(***************************************************************************)
SpawnCoords == {SPAWN_LOW, 0, SPAWN_HIGH - 1}
Patterns == [1..PatternLen -> SpawnCoords]
Draw(p, k) == p[(k % PatternLen) + 1]
NewCube(p, i) ==
    [x |-> Draw(p, 3 * i), y |-> Draw(p, 3 * i + 1), z |-> Draw(p, 3 * i + 2),
     x_range |-> X_RANGE, speed |-> SPEED]
BatchInclusive(n, p) ==
    LET made == {NewCube(p, i) : i \in 0..n}
    IN  [c \in made |-> Cardinality({i \in 0..n : NewCube(p, i) = c})]
Batch(n, p) ==
    LET made == {NewCube(p, i) : i \in 0..(n - 1)}
    IN  [c \in made |-> Cardinality({i \in 0..(n - 1) : NewCube(p, i) = c})]

(***************************************************************************)
(* commands.spawn(..) queues the entity; the world gets it when the        *)
(* stage's buffers are applied.                                            *)
(***************************************************************************)
SpawnImmediate(store, queue, batch) ==
    [cubes |-> store (+) batch, commands |-> queue]
SpawnDeferred(store, queue, batch) ==
    [cubes |-> store, commands |-> queue (+) batch]

(***************************************************************************)
(* counter.count += 1, n times, through ResMut: every write marks the      *)
(* resource changed; no write, no mark.  `changed` is "changed after the   *)
(* last run of counter_system", which is what is_changed() compares.       *)
(***************************************************************************)
CountUnmarked(c, n) == [count |-> c.count + n, changed |-> c.changed]
CountOncePerTick(c, n) ==
    [count |-> c.count + (IF n > 0 THEN 1 ELSE 0),
     changed |-> c.changed \/ n > 0]
CountUp(c, n) == [count |-> c.count + n, changed |-> c.changed \/ n > 0]

(***************************************************************************)
(* movement_system on one cube.                                            *)
(***************************************************************************)
MoveCubeHalfJump(c, delta) ==
    LET x1 == c.x + delta * c.speed
    IN  [c EXCEPT !.x = IF x1 > c.x_range THEN x1 - c.x_range ELSE x1]
MoveCube(c, delta) ==
    LET x1 == c.x + delta * c.speed
    IN  [c EXCEPT !.x = IF x1 > c.x_range THEN x1 - c.x_range * 2 ELSE x1]

RECURSIVE SumCounts(_, _)
SumCounts(B, S) ==
    IF S = {} THEN 0
    ELSE LET c == CHOOSE c \in S : TRUE
         IN  B[c] + SumCounts(B, S \ {c})
MoveAll(B, delta) ==
    LET moved == {MoveCube(c, delta) : c \in DOMAIN B}
    IN  [d \in moved |->
            SumCounts(B, {c \in DOMAIN B : MoveCube(c, delta) = d})]

(***************************************************************************)
(* counter_system on one field of the text.                                *)
(***************************************************************************)
CountField(c, old) == IF c.changed THEN to_string(U32(c.count)) ELSE old
Sample(diag, field) == IF diag = None THEN None ELSE diag[1][field]
FpsFieldZeroed(sample, old) ==
    IF sample # None THEN format_2(sample[1]) ELSE format_2(0)
FpsField(sample, old) == IF sample # None THEN format_2(sample[1]) ELSE old

(***************************************************************************)
(* What the host hands a frame.                                            *)
(***************************************************************************)
Deltas == {0, 500, 1000, 2000}
FpsSamples == {59994, 60126}
OptSample == {None} \cup {Some(v) : v \in FpsSamples}
FpsInputs ==
    {None} \cup
    {Some(d) : d \in [value : OptSample, average : OptSample,
                      smoothed : OptSample]}

NoFps == {None}
NoKeys == {{}}
MotionDeltas == {1000, 2000, 4000, 6000}
MotionKeys == {{}, {"S"}}
StatsDeltas == {16}
InputDeltas == {0, 1, 2, 3, 16, 500, 1000}
RateSamples == [hi : {0, 1, Base - 1}, lo : {0, 1, 100, 249, 250, 251, Base - 1}]

(***************************************************************************)
(* History bookkeeping.                                                    *)
(***************************************************************************)
Resources == {"spawner", "counter", "cubes"}
Snapshot(sys) ==
    [sys |-> sys, spawning_rate |-> spawner.spawning_rate,
     count |-> counter.count, text |-> text, commands |-> commands]
Changed(r) ==
    CASE r = "spawner" -> spawner' # spawner
      [] r = "counter" -> counter'.count # counter.count
      [] r = "cubes" -> cubes' # cubes
WritersAfter(sys) ==
    [r \in Resources |->
        IF Changed(r) THEN writers[r] \cup {sys} ELSE writers[r]]
NoWriters == [r \in Resources |-> {}]

(***************************************************************************)
(* setup: the state once the startup stage has run and its commands have   *)
(* been applied.                                                           *)
(***************************************************************************)
setup ==
    /\ spawner = [spawning_rate |-> U32(INITIAL_SPAWNING_RATE),
                  timer |-> [elapsed |-> 0, finished |-> FALSE,
                             times_finished_this_tick |-> 0]]
    /\ counter = [count |-> 0, changed |-> TRUE]
    /\ cubes = EmptyBag
    /\ commands = EmptyBag
    /\ text = [i \in 0..9 |->
                 CASE i = 0 -> "Cubes Count: "
                   [] i = 2 -> "\nSpawning Rate: "
                   [] i = 4 -> "\nFPS (raw): "
                   [] i = 6 -> "\nFPS (SMA): "
                   [] i = 8 -> "\nFPS (EMA): "
                   [] OTHER -> ""]
    /\ time_delta = 0
    /\ time_updated = FALSE
    /\ keyboard_input = {}
    /\ diagnostics = None
    /\ pending = {}
    /\ phase = "idle"
    /\ panicked = FALSE
    /\ writers = NoWriters
    /\ total = 0
    /\ longest = 0

Init ==
    /\ setup
    /\ prev = Snapshot("setup")

(***************************************************************************)
(* The host starts a frame: Time, Input and Diagnostics get their values   *)
(* for the frame and every system is due.  The first update of Time has no *)
(* earlier update to measure from and leaves the delta at zero.            *)
(***************************************************************************)
Frame(D, K, F, limit) ==
    /\ phase = "idle"
    /\ ~panicked
    /\ \E d \in IF time_updated THEN D ELSE {0}, k \in K, f \in F :
          /\ total + d <= limit
          /\ time_delta' = d
          /\ keyboard_input' = k
          /\ diagnostics' = f
    /\ time_updated' = TRUE
    /\ pending' = Systems
    /\ phase' = "update"
    /\ prev' = Snapshot("begin")
    /\ UNCHANGED <<spawner, counter, cubes, commands, text, panicked, writers,
                   total, longest>>

BeginFrame == Frame(Deltas, SUBSET Keys, NoFps, MaxTime)
BeginMotionFrame == Frame(MotionDeltas, MotionKeys, NoFps, MotionTime)
BeginStatsFrame == Frame(StatsDeltas, NoKeys, FpsInputs, StatsTime)

input_system ==
    /\ phase = "update"
    /\ ~panicked
    /\ "input_system" \in pending
    /\ pending' = pending \ {"input_system"}
    /\ prev' = Snapshot("input_system")
    /\ \E outcome \in IncreaseOutcomes(spawner.spawning_rate, keyboard_input,
                                       time_delta) :
          IF outcome = "panic"
          THEN /\ panicked' = TRUE
               /\ spawner' = spawner
          ELSE /\ panicked' = FALSE
               /\ spawner' =
                    [spawner EXCEPT !.spawning_rate =
                       RateAfterS(RateAfterW(@, keyboard_input, time_delta),
                                  keyboard_input, time_delta)]
    /\ UNCHANGED <<counter, cubes, commands, text, time_delta, time_updated,
                   keyboard_input, diagnostics, phase, total, longest>>
    /\ writers' = WritersAfter("input_system")

(***************************************************************************)
(* The program has one CubeSpawner, so the loop over the query runs once.  *)
(* MaxCubes caps the cubes of a run; the counter stays far below u32::MAX, *)
(* which the entity allocator would reach before the counter does.         *)
(***************************************************************************)
cube_spawning_system ==
    /\ phase = "update"
    /\ ~panicked
    /\ "cube_spawning_system" \in pending
    /\ pending' = pending \ {"cube_spawning_system"}
    /\ prev' = Snapshot("cube_spawning_system")
    /\ LET timer == TimerTick(spawner.timer, time_delta)
       IN  /\ spawner' = [spawner EXCEPT !.timer = timer]
           /\ IF timer.finished
              THEN /\ U32Le(spawner.spawning_rate,
                            U32(MaxCubes - counter.count))
                   /\ \E p \in Patterns :
                        LET n == spawner.spawning_rate.lo
                            out == SpawnDeferred(cubes, commands, Batch(n, p))
                        IN  /\ cubes' = out.cubes
                            /\ commands' = out.commands
                            /\ counter' = CountUp(counter, n)
              ELSE UNCHANGED <<cubes, commands, counter>>
    /\ total' = total + time_delta
    /\ UNCHANGED <<text, time_delta, time_updated, keyboard_input, diagnostics,
                   phase, panicked, longest>>
    /\ writers' = WritersAfter("cube_spawning_system")

movement_system ==
    /\ phase = "update"
    /\ ~panicked
    /\ "movement_system" \in pending
    /\ pending' = pending \ {"movement_system"}
    /\ prev' = Snapshot("movement_system")
    /\ cubes' = MoveAll(cubes, time_delta)
    /\ longest' = IF cubes # EmptyBag /\ time_delta > longest
                  THEN time_delta ELSE longest
    /\ UNCHANGED <<spawner, counter, commands, text, time_delta, time_updated,
                   keyboard_input, diagnostics, phase, panicked, total>>
    /\ writers' = WritersAfter("movement_system")

counter_system ==
    /\ phase = "update"
    /\ ~panicked
    /\ "counter_system" \in pending
    /\ pending' = pending \ {"counter_system"}
    /\ prev' = Snapshot("counter_system")
    /\ text' = [text EXCEPT
                  ![1] = CountField(counter, @),
                  ![3] = to_string(spawner.spawning_rate),
                  ![5] = FpsField(Sample(diagnostics, "value"), @),
                  ![7] = FpsField(Sample(diagnostics, "average"), @),
                  ![9] = FpsField(Sample(diagnostics, "smoothed"), @)]
    /\ counter' = [counter EXCEPT !.changed = FALSE]
    /\ UNCHANGED <<spawner, cubes, commands, time_delta, time_updated,
                   keyboard_input, diagnostics, phase, panicked, total,
                   longest>>
    /\ writers' = WritersAfter("counter_system")

(***************************************************************************)
(* The stage ends: the queued commands are applied to the world.           *)
(***************************************************************************)
EndFrame ==
    /\ phase = "update"
    /\ ~panicked
    /\ pending = {}
    /\ cubes' = cubes (+) commands
    /\ commands' = EmptyBag
    /\ phase' = "idle"
    /\ prev' = [Snapshot("end") EXCEPT !.commands = EmptyBag]
    /\ writers' = NoWriters
    /\ UNCHANGED <<spawner, counter, text, time_delta, time_updated,
                   keyboard_input, diagnostics, pending, panicked, total,
                   longest>>

Next ==
    \/ BeginFrame
    \/ input_system
    \/ cube_spawning_system
    \/ movement_system
    \/ counter_system
    \/ EndFrame

Spec == Init /\ [][Next]_vars

(***************************************************************************)
(* The frame loop with the motion in view: long frames, no statistics.     *)
(***************************************************************************)
NextMotion ==
    \/ BeginMotionFrame
    \/ input_system
    \/ cube_spawning_system
    \/ movement_system
    \/ counter_system
    \/ EndFrame

SpecMotion == Init /\ [][NextMotion]_vars

(***************************************************************************)
(* The frame loop with the statistics in view: every combination of        *)
(* present and absent FPS samples, in frames of 16 ms.                     *)
(***************************************************************************)
NextStats ==
    \/ BeginStatsFrame
    \/ input_system
    \/ cube_spawning_system
    \/ movement_system
    \/ counter_system
    \/ EndFrame

SpecStats == Init /\ [][NextStats]_vars

(***************************************************************************)
(* input_system as a function of the rate, the delta and the keys held:    *)
(* one run of it from every rate of RateSamples.                           *)
(***************************************************************************)
InitInput ==
    /\ spawner \in [spawning_rate : RateSamples,
                    timer : {[elapsed |-> 0, finished |-> FALSE,
                              times_finished_this_tick |-> 0]}]
    /\ counter = [count |-> 0, changed |-> TRUE]
    /\ cubes = EmptyBag
    /\ commands = EmptyBag
    /\ text = [i \in 0..9 |-> ""]
    /\ time_delta \in InputDeltas
    /\ time_updated = TRUE
    /\ keyboard_input \in SUBSET Keys
    /\ diagnostics = None
    /\ pending = {"input_system"}
    /\ phase = "update"
    /\ panicked = FALSE
    /\ writers = NoWriters
    /\ total = 0
    /\ longest = 0
    /\ prev = Snapshot("begin")

NextInput == input_system

SpecInput == InitInput /\ [][NextInput]_vars

(***************************************************************************)
(*                              The claims                                 *)
(***************************************************************************)

(* C1: a tick of cube_spawning_system with spawning_rate = n queues exactly *)
(* n spawn commands, each with x_range = 20.0 and speed = 10.0, and adds    *)
(* exactly n to the counter when the timer finished in the tick; when it    *)
(* did not, nothing is queued and the counter is as it was.                 *)
C1_SpawnTick ==
    prev.sys = "cube_spawning_system" =>
        IF spawner.timer.finished
        THEN /\ prev.spawning_rate.hi = 0
             /\ BagCardinality(commands) =
                    BagCardinality(prev.commands) + prev.spawning_rate.lo
             /\ \A c \in BagToSet(commands) :
                    c.x_range = 20000 /\ c.speed = 10
             /\ counter.count = prev.count + prev.spawning_rate.lo
        ELSE /\ commands = prev.commands
             /\ counter.count = prev.count

C1_Witness ==
    /\ prev.sys = "cube_spawning_system"
    /\ spawner.timer.finished
    /\ prev.count = 100
    /\ counter.count = 200
    /\ BagCardinality(commands) = 100

(* C2: with only the decrease key held, input_system leaves                 *)
(* r - round(500 * elapsed) when that step is at most r and 0 when it is    *)
(* more; the rate never wraps around and the system does not panic.  The    *)
(* step expected for each delta of InputDeltas is written out here.         *)
C2_Step(delta) ==
    CASE delta = 0 -> 0
      [] delta = 1 -> 1
      [] delta = 2 -> 1
      [] delta = 3 -> 2
      [] delta = 16 -> 8
      [] delta = 500 -> 250
      [] delta = 1000 -> 500

C2_SaturatingDecrease ==
    (prev.sys = "input_system" /\ keyboard_input = {"S"}) =>
        LET r == prev.spawning_rate
            d == U32(C2_Step(time_delta))
            now == spawner.spawning_rate
        IN  /\ ~panicked
            /\ U32Le(now, r)
            /\ IF U32Le(d, r)
               THEN ~AddOverflows(now, d) /\ wrapping_add(now, d) = r
               ELSE now = U32(0)

C2_Witness ==
    /\ prev.sys = "input_system"
    /\ keyboard_input = {"S"}
    /\ prev.spawning_rate = U32(249)
    /\ time_delta = 500
    /\ spawner.spawning_rate = U32(0)

(* C3: with both keys held, input_system leaves the rate as it found it,    *)
(* for every rate a u32 holds.                                              *)
C3_BothKeysCancel ==
    (prev.sys = "input_system" /\ keyboard_input = {"W", "S"}) =>
        /\ ~panicked
        /\ spawner.spawning_rate = prev.spawning_rate

(* C4: the timer fires at most once per tick and does not catch up: a tick  *)
(* finishes the timer exactly when the time ticked so far crosses a whole   *)
(* period in it, it queues one batch of spawning_rate cubes however many    *)
(* periods the delta spans, and less than one period is carried over.       *)
C4_NoCatchUp ==
    prev.sys = "cube_spawning_system" =>
        /\ spawner.timer.finished <=>
              (total \div 1000) > ((total - time_delta) \div 1000)
        /\ spawner.timer.elapsed < 1000
        /\ prev.spawning_rate.hi = 0
        /\ BagCardinality(commands) =
              IF spawner.timer.finished THEN prev.spawning_rate.lo ELSE 0

C4_Witness ==
    /\ prev.sys = "cube_spawning_system"
    /\ time_delta = 2000
    /\ spawner.timer.times_finished_this_tick = 2
    /\ BagCardinality(commands) = 100
    /\ counter.count = 100

(* C5: position.x of every cube is within [-20.0, 20.0) after the wrap.     *)
C5_WithinRange ==
    \A c \in BagToSet(cubes) : -20000 <= c.x /\ c.x < 20000

(* C5, amended: position.x is never below -20.0, and it is at most 20.0     *)
(* (20.0 itself is not wrapped) as long as no movement tick lasted longer   *)
(* than 2 * x_range / speed = 4 s.                                          *)
C5_Amended ==
    \A c \in BagToSet(cubes) :
        /\ -20000 <= c.x
        /\ longest <= 4000 => c.x <= 20000

C5_Witness ==
    /\ longest = 4000
    /\ \E c \in BagToSet(cubes) : c.x = 20000
    /\ \E c \in BagToSet(cubes) : c.x < -10000

(* C6: at the end of every frame text section 3 is the decimal rendering    *)
(* of the current spawning_rate.                                            *)
C6_RateShown ==
    (phase = "idle" /\ prev.sys = "end") =>
        text[3] = to_string(spawner.spawning_rate)

(* C7: in every frame each of the Spawn Controller, the counter and the     *)
(* entity collection is changed by at most one of the four systems.         *)
C7_SingleWriter ==
    \A r \in Resources : Cardinality(writers[r]) <= 1

(* C7, amended: in every frame the counter is changed by                    *)
(* cube_spawning_system only and the cubes in the world by movement_system  *)
(* only (the spawns are queued and applied after the systems); the Spawn    *)
(* Controller is changed by no system other than input_system (the rate)    *)
(* and cube_spawning_system (the timer), which may both change it in one    *)
(* frame.                                                                   *)
C7_Amended ==
    /\ writers["counter"] \subseteq {"cube_spawning_system"}
    /\ writers["cubes"] \subseteq {"movement_system"}
    /\ writers["spawner"] \subseteq {"input_system", "cube_spawning_system"}

C7_Witness ==
    /\ writers["counter"] = {"cube_spawning_system"}
    /\ writers["cubes"] = {"movement_system"}
    /\ writers["spawner"] = {"input_system", "cube_spawning_system"}
    /\ commands # EmptyBag

(* C8: a run of counter_system leaves an FPS field as it was when its       *)
(* sample is absent and writes the sample with two decimals when it is      *)
(* present, each of the three fields on its own.  The strings expected for  *)
(* the samples of FpsSamples are written out here.                          *)
C8_Shown(v) ==
    CASE v = 59994 -> "59.99"
      [] v = 60126 -> "60.13"

C8_FpsFields ==
    prev.sys = "counter_system" =>
        \A f \in {<<5, "value">>, <<7, "average">>, <<9, "smoothed">>} :
            LET sample == Sample(diagnostics, f[2])
            IN  IF sample = None
                THEN text[f[1]] = prev.text[f[1]]
                ELSE text[f[1]] = C8_Shown(sample[1])

C8_Witness ==
    /\ prev.sys = "counter_system"
    /\ diagnostics # None
    /\ Sample(diagnostics, "value") = None
    /\ text[5] = "59.99"
    /\ Sample(diagnostics, "average") = Some(60126)
    /\ prev.text[7] = "59.99"
    /\ text[7] = "60.13"
    /\ Sample(diagnostics, "smoothed") = None
    /\ text[9] = ""

(* C9: between frames the counter is the number of cubes in the world, and  *)
(* no step makes the counter smaller.                                       *)
C9_CounterIsStoreSize ==
    /\ phase = "idle" => counter.count = BagCardinality(cubes)
    /\ counter.count >= prev.count

C9_Witness ==
    /\ phase = "idle"
    /\ prev.sys = "end"
    /\ counter.count = 200
    /\ BagCardinality(cubes) = 200
    /\ spawner.spawning_rate # U32(100)

(* C10: after every run of counter_system text section 1 is the decimal     *)
(* rendering of the counter as it is at that run, in whatever order the     *)
(* systems ran; after the first run it is "0".                              *)
C10_CountShown ==
    prev.sys = "counter_system" =>
        /\ text[1] = to_string(U32(counter.count))
        /\ prev.text[1] = "" => text[1] = "0"

C10_Witness ==
    /\ prev.sys = "counter_system"
    /\ "cube_spawning_system" \in pending
    /\ counter.count = 100
    /\ prev.text[1] = "0"
    /\ text[1] = "100"
====
